---- MODULE Spec2Model ----
(***************************************************************************)
(* Crime-Data-Dashboard: the credential store and the analytics functions  *)
(* of Crime/backend.py, and the parts of Crime/app.py that call them.      *)
(*                                                                         *)
(* Python values are tagged tuples: Str(x) is the str x, PyNone is None,   *)
(* so that None differs from every string.                                 *)
(***************************************************************************)
EXTENDS Integers, Sequences, FiniteSets, TLC

\* ------------------------------------------------------------------------
\* Python values
\* ------------------------------------------------------------------------

Str(x) == <<"str", x>>

PyNone == <<"NoneType">>

\* bool(v) for a str or None: None and "" are falsy, every other str is truthy
\* (a whitespace-only str is truthy).
Truthy(v) == v # PyNone /\ v # Str("")

\* ------------------------------------------------------------------------
\* Bounds and input sets of the credential store
\* ------------------------------------------------------------------------

\* Streamlit sessions (script-runner threads) sharing the one backend module.
NumSessions == 2

Sessions == 1..NumSessions

\* <<username, password>> pairs a register submit or a direct call passes:
\* each kind of blank field, a seeded username, and a new username with a
\* whitespace-only and with an ordinary password.
RegisterInputs ==
    {<<PyNone, Str("pw1")>>, <<Str(""), Str("pw1")>>,
     <<Str("amy"), PyNone>>, <<Str("amy"), Str("")>>,
     <<Str("amy"), Str(" ")>>, <<Str("amy"), Str("pw1")>>,
     <<Str("judge"), Str("")>>, <<Str("judge"), Str("pw1")>>}

\* <<username, password>> pairs a login submit or a direct call passes.
AuthenticateInputs ==
    {<<Str("judge"), Str("hackathon2024")>>, <<Str("judge"), Str("pw1")>>,
     <<Str("judge"), PyNone>>, <<Str("amy"), Str("pw1")>>, <<Str("amy"), PyNone>>}

\* Usernames an is_username_registered call passes: one that is not seeded
\* and that a register call can add.
IsRegisteredInputs == {Str("amy")}

VARIABLES
    creds,      \* USER_CREDENTIALS: a function from usernames to passwords
    pc,         \* pc[s]: where session s's thread is inside a backend call
    args,       \* args[s]: <<username, password>> of the call in progress
    ret,        \* ret[s]: what the last completed call of s returned
    okLog,      \* history: <<s, username, password>> of every register that returned success
    session_state, \* session_state[s]: st.session_state of session s (logged_in, username, page)
    fileStatus, \* crime.csv beside backend.py: "missing", "unreadable" or "present"
    raw,        \* the table pd.read_csv yields from crime.csv (header already as after line 23)
    loadResult, \* how the last load_data() call ended
    data,       \* the DataFrame handed to the analytics functions
    out         \* what the last analytics call returned, with its arguments

credVars == <<creds, pc, args, ret, okLog, session_state>>

dataVars == <<fileStatus, raw, loadResult, data, out>>

vars == <<creds, pc, args, ret, okLog, session_state, fileStatus, raw, loadResult, data, out>>

\* ------------------------------------------------------------------------
\* backend.py: the credential store
\* ------------------------------------------------------------------------

\* The seeded accounts.
USER_CREDENTIALS ==
    [u \in {Str("judge"), Str("user1")} |->
        IF u = Str("judge") THEN Str("hackathon2024") ELSE Str("pass123")]

\* dict.get(key): the stored value, or None when the key is absent.
DictGet(d, k) == IF k \in DOMAIN d THEN d[k] ELSE PyNone

\* d[k] = v
DictSet(d, k, v) == [x \in DOMAIN d \cup {k} |-> IF x = k THEN v ELSE d[x]]

\* authenticate_user(username, password)
authenticate_user(store, username, password) == DictGet(store, username) = password

\* is_username_registered(username)
is_username_registered(store, username) == username \in DOMAIN store

\* A variant of the blank test that looks at the username only.
register_blank_username_only(username, password) == ~Truthy(username)

\* backend.py:69: not username or not password
register_blank(username, password) == ~Truthy(username) \/ ~Truthy(password)

NoArgs == <<PyNone, PyNone>>

\* app.py:19-26: st.session_state of a new session.
NewSession == [logged_in |-> FALSE, username |-> PyNone, page |-> "Home"]

InitCred ==
    /\ creds = USER_CREDENTIALS
    /\ pc = [s \in Sessions |-> "idle"]
    /\ args = [s \in Sessions |-> NoArgs]
    /\ ret = [s \in Sessions |-> <<"none">>]
    /\ okLog = {}
    /\ session_state = [s \in Sessions |-> NewSession]
    /\ fileStatus = "present"
    /\ raw = [columns |-> {}, rows |-> <<>>]
    /\ loadResult = <<"not_called">>
    /\ data = [columns |-> {}, rows |-> <<>>]
    /\ out = <<"none">>

\* A session's thread enters register_user(username, password) (app.py:83).
RegisterCall(s) ==
    /\ pc[s] = "idle"
    /\ \E a \in RegisterInputs : args' = [args EXCEPT ![s] = a]
    /\ pc' = [pc EXCEPT ![s] = "reg_validate"]
    /\ ret' = [ret EXCEPT ![s] = <<"none">>]
    /\ UNCHANGED <<creds, okLog, session_state>>
    /\ UNCHANGED dataVars

\* backend.py:69-70: if not username or not password: return False, "...empty."
RegisterValidate(s) ==
    /\ pc[s] = "reg_validate"
    /\ IF register_blank(args[s][1], args[s][2])
          THEN /\ ret' = [ret EXCEPT ![s] = <<"register", FALSE, "EmptyField">>]
               /\ pc' = [pc EXCEPT ![s] = "idle"]
               /\ args' = [args EXCEPT ![s] = NoArgs]
          ELSE /\ pc' = [pc EXCEPT ![s] = "reg_check"]
               /\ UNCHANGED <<ret, args>>
    /\ UNCHANGED <<creds, okLog, session_state>>
    /\ UNCHANGED dataVars

\* backend.py:71-72: if username in USER_CREDENTIALS: return False, "...exists."
RegisterCheck(s) ==
    /\ pc[s] = "reg_check"
    /\ IF args[s][1] \in DOMAIN creds
          THEN /\ ret' = [ret EXCEPT ![s] = <<"register", FALSE, "DuplicateUsername">>]
               /\ pc' = [pc EXCEPT ![s] = "idle"]
               /\ args' = [args EXCEPT ![s] = NoArgs]
          ELSE /\ pc' = [pc EXCEPT ![s] = "reg_insert"]
               /\ UNCHANGED <<ret, args>>
    /\ UNCHANGED <<creds, okLog, session_state>>
    /\ UNCHANGED dataVars

\* backend.py:74-75: USER_CREDENTIALS[username] = password; return True, "..."
RegisterInsert(s) ==
    /\ pc[s] = "reg_insert"
    /\ creds' = DictSet(creds, args[s][1], args[s][2])
    /\ ret' = [ret EXCEPT ![s] = <<"register", TRUE, "ok">>]
    /\ okLog' = okLog \cup {<<s, args[s][1], args[s][2]>>}
    /\ pc' = [pc EXCEPT ![s] = "idle"]
    /\ args' = [args EXCEPT ![s] = NoArgs]
    /\ UNCHANGED session_state
    /\ UNCHANGED dataVars

\* app.py:57 and backend.py:59-61: authenticate_user(username, password)
\* returns USER_CREDENTIALS.get(username) == password (one read of the store).
Authenticate(s) ==
    /\ pc[s] = "idle"
    /\ \E a \in AuthenticateInputs :
          ret' = [ret EXCEPT ![s] =
                    <<"authenticate", a[1], a[2], authenticate_user(creds, a[1], a[2])>>]
    /\ UNCHANGED <<creds, pc, args, okLog, session_state>>
    /\ UNCHANGED dataVars

\* app.py:63 and backend.py:63-65: is_username_registered(username) returns
\* username in USER_CREDENTIALS (one read of the store).
IsUsernameRegistered(s) ==
    /\ pc[s] = "idle"
    /\ \E u \in IsRegisteredInputs :
          ret' = [ret EXCEPT ![s] =
                    <<"is_registered", u, is_username_registered(creds, u)>>]
    /\ UNCHANGED <<creds, pc, args, okLog, session_state>>
    /\ UNCHANGED dataVars

NextCred ==
    \E s \in Sessions :
        \/ RegisterCall(s)
        \/ RegisterValidate(s)
        \/ RegisterCheck(s)
        \/ RegisterInsert(s)
        \/ Authenticate(s)
        \/ IsUsernameRegistered(s)

SpecCred == InitCred /\ [][NextCred]_vars

\* ------------------------------------------------------------------------
\* Claims about the credential store
\* ------------------------------------------------------------------------

\* C1: register(username, password) has exactly three outcomes.  A call whose
\* username or password is blank (None or the empty string) returns the
\* EmptyField failure; otherwise a call that finds the username among the
\* store's keys returns the DuplicateUsername failure; otherwise the call
\* stores username -> password and returns success.  A step that returns a
\* failure, and every step that does not insert, leaves the store unchanged.
C1_RegisterOutcomes ==
    [][\A s \in Sessions :
        LET u == args[s][1]
            p == args[s][2]
            blank == u \in {PyNone, Str("")} \/ p \in {PyNone, Str("")}
        IN  /\ (pc[s] = "reg_validate" /\ pc'[s] # "reg_validate") =>
                  /\ creds' = creds
                  /\ IF blank
                        THEN pc'[s] = "idle" /\ ret'[s] = <<"register", FALSE, "EmptyField">>
                        ELSE pc'[s] = "reg_check"
            /\ (pc[s] = "reg_check" /\ pc'[s] # "reg_check") =>
                  /\ creds' = creds
                  /\ IF u \in DOMAIN creds
                        THEN pc'[s] = "idle"
                             /\ ret'[s] = <<"register", FALSE, "DuplicateUsername">>
                        ELSE pc'[s] = "reg_insert"
            /\ (pc[s] = "reg_insert" /\ pc'[s] # "reg_insert") =>
                  /\ pc'[s] = "idle"
                  /\ ret'[s] = <<"register", TRUE, "ok">>
                  /\ DOMAIN creds' = DOMAIN creds \cup {u}
                  /\ creds'[u] = p
                  /\ \A k \in DOMAIN creds \ {u} : creds'[k] = creds[k]
            /\ (ret'[s] # ret[s] /\ ret'[s][1] = "register") =>
                  ret'[s] \in {<<"register", FALSE, "EmptyField">>,
                               <<"register", FALSE, "DuplicateUsername">>,
                               <<"register", TRUE, "ok">>}
    ]_vars

\* C1 witness: one register call has returned success and another has been
\* refused as a duplicate, both with non-blank arguments.
C1_Witness ==
    \E s, t \in Sessions :
        /\ ret[s] = <<"register", TRUE, "ok">>
        /\ ret[t] = <<"register", FALSE, "DuplicateUsername">>
        /\ Str("amy") \in DOMAIN creds

\* C2: authenticate(username, password) returns true exactly when username is
\* a key of the store and the stored password equals the given one, for every
\* username and password value, None included; so it returns false for every
\* unregistered username.
C2_AuthenticateExactMatch ==
    [][\A s \in Sessions :
        (ret'[s] # ret[s] /\ ret'[s][1] = "authenticate") =>
            (ret'[s][4] <=> (/\ ret'[s][2] \in DOMAIN creds
                            /\ creds[ret'[s][2]] = ret'[s][3]))
    ]_vars

\* C3: of the register calls that returned success no two sessions' calls
\* name the same username with different passwords, and the store holds, for
\* each successful call, the password that call supplied.
C3_UniqueUnderConcurrency ==
    /\ \A e, f \in okLog : (e[2] = f[2] /\ e[3] # f[3]) => e = f
    /\ \A e \in okLog : e[2] \in DOMAIN creds /\ creds[e[2]] = e[3]

\* C14: no step of register, authenticate or isRegistered removes an entry of
\* the store or changes its password, so every username ever stored keeps the
\* password it was first stored with; authenticate and isRegistered leave the
\* store as it is; and the two seeded accounts authenticate after every step.
C14_EntriesPersist ==
    [][/\ \A u \in DOMAIN creds : u \in DOMAIN creds' /\ creds'[u] = creds[u]
       /\ \A s \in Sessions :
             (ret'[s] # ret[s] /\ ret'[s][1] \in {"authenticate", "is_registered"}) =>
                 creds' = creds
       /\ authenticate_user(creds', Str("judge"), Str("hackathon2024"))
       /\ authenticate_user(creds', Str("user1"), Str("pass123"))]_vars

\* ------------------------------------------------------------------------
\* backend.py: tables
\* ------------------------------------------------------------------------

\* A DataFrame: the set of its column names and the sequence of its rows, each
\* row a function from the column names to cell values.
Frame(cols, rows) == [columns |-> cols, rows |-> rows]

\* pd.DataFrame()
EmptyFrame == Frame({}, <<>>)

\* DataFrame.empty: no columns or no rows
IsEmpty(df) == df.columns = {} \/ df.rows = <<>>

\* All sequences over S of length at most n.
SeqsUpTo(S, n) == UNION {[1..k -> S] : k \in 0..n}

\* Largest crime count a source cell holds in the model.
MaxCount == 3

\* Rows of the raw table in the loader's specification.
MaxLoadRows == 1

\* Python's int(x) on a float given in tenths: truncation toward zero.
TruncTenths(t) == IF t >= 0 THEN t \div 10 ELSE 0 - ((0 - t) \div 10)

\* str.strip().upper() on the strings the model reads.
StripUpper(x) ==
    CASE x = " goa " -> "GOA"
      [] x = "delhi" -> "DELHI"
      [] x = "total " -> "TOTAL"
      [] x = " d1" -> "D1"
      [] x = "nan" -> "NAN"
      [] x = "  " -> ""
      [] OTHER -> x

\* Series.astype(str) on a cell of a text column: a missing cell (NaN) becomes "nan".
AsStr(cell) == IF cell = <<"nan">> THEN "nan" ELSE cell[2]

\* backend.py:34-42
known_states_uts ==
    {"ANDAMAN & NICOBAR ISLANDS", "ANDHRA PRADESH", "ARUNACHAL PRADESH",
     "ASSAM", "BIHAR", "CHANDIGARH", "CHHATTISGARH", "DADRA & NAGAR HAVELI",
     "DAMAN & DIU", "DELHI", "GOA", "GUJARAT", "HARYANA", "HIMACHAL PRADESH",
     "JAMMU & KASHMIR", "JHARKHAND", "KARNATAKA", "KERALA", "LAKSHADWEEP",
     "MADHYA PRADESH", "MAHARASHTRA", "MANIPUR", "MEGHALAYA", "MIZORAM",
     "NAGALAND", "ODISHA", "PUDUCHERRY", "PUNJAB", "RAJASTHAN", "SIKKIM",
     "TAMIL NADU", "TRIPURA", "UTTAR PRADESH", "UTTARAKHAND", "WEST BENGAL"}

KeyColumns == {"STATE/UT", "DISTRICT", "YEAR"}

\* backend.py:53: pd.to_numeric(col, errors='coerce').fillna(0).astype(int) on
\* one cell.  A number stays a number (a float is truncated toward zero, a
\* negative number stays negative); text and a missing cell become NaN, then 0.
CoerceCell(cell) ==
    CASE cell[1] = "int" -> cell[2]
      [] cell[1] = "float" -> TruncTenths(cell[2])
      [] OTHER -> 0

\* backend.py:23-55: the cleaning load_data applies to the table it has read.
CleanData(table) ==
    LET cols == table.columns
        \* lines 28-31: key text columns trimmed and upper-cased
        Normalised(r) ==
            [c \in cols |->
                IF c \in {"STATE/UT", "DISTRICT"} THEN StripUpper(AsStr(r[c])) ELSE r[c]]
        \* lines 43-44: allow-list of states; lines 47-48: no "TOTAL" district
        Keep(r) ==
            /\ ("STATE/UT" \in cols => r["STATE/UT"] \in known_states_uts)
            /\ ("DISTRICT" \in cols => r["DISTRICT"] # "TOTAL")
        \* lines 51-53: every other column but YEAR coerced to int
        Coerced(r) ==
            [c \in cols |-> IF c \in KeyColumns THEN r[c] ELSE CoerceCell(r[c])]
        normalised == [i \in 1..Len(table.rows) |-> Normalised(table.rows[i])]
        kept == SelectSeq(normalised, Keep)
    IN  Frame(cols, [i \in 1..Len(kept) |-> Coerced(kept[i])])

\* The names bound in backend.py's module namespace when load_data runs: the
\* imports, the module's own definitions and the interpreter's module
\* attributes.  Line 17 reads the name _file_, which is none of them.
BackendGlobals ==
    {"pd", "np", "os", "USER_CREDENTIALS", "load_data", "authenticate_user",
     "is_username_registered", "register_user", "get_states", "get_years",
     "filter_state_district", "calculate_safety_ratio", "get_top_crime_composition",
     "__file__", "__name__", "__doc__", "__builtins__"}

\* backend.py:11-55: load_data().  The result is <<"returned", frame, printed>>
\* or <<"raised", exception>>; only FileNotFoundError is caught (line 19).
load_data(status, table) ==
    IF "_file_" \notin BackendGlobals
        THEN <<"raised", "NameError">>
    ELSE IF status = "missing"
        THEN <<"returned", EmptyFrame, "Error: crime.csv not found.">>
    ELSE IF status = "unreadable"
        THEN <<"raised", "PermissionError">>
    ELSE <<"returned", CleanData(table), "">>

\* Source cells of a crime-count column: integers, floats (in tenths), text, missing.
RawCells ==
    {<<"int", n>> : n \in (0 - 1)..MaxCount}
        \cup {<<"float", 27>>, <<"float", 0 - 15>>, <<"text", "n/a">>, <<"nan">>}

LoadColumns == {"STATE/UT", "DISTRICT", "TOTAL IPC CRIMES"}

RawLoadRows ==
    {[c \in LoadColumns |->
        IF c = "STATE/UT" THEN st ELSE IF c = "DISTRICT" THEN d ELSE t] :
        st \in {Str("GOA"), Str(" goa "), Str("ALL INDIA")},
        d \in {Str("D1"), Str("total "), <<"nan">>},
        t \in RawCells}

RawLoadTables == {Frame(LoadColumns, rows) : rows \in SeqsUpTo(RawLoadRows, MaxLoadRows)}

InitLoad ==
    /\ creds = USER_CREDENTIALS
    /\ pc = [s \in Sessions |-> "idle"]
    /\ args = [s \in Sessions |-> NoArgs]
    /\ ret = [s \in Sessions |-> <<"none">>]
    /\ okLog = {}
    /\ session_state = [s \in Sessions |-> NewSession]
    /\ fileStatus \in {"missing", "unreadable", "present"}
    /\ raw \in RawLoadTables
    /\ loadResult = <<"not_called">>
    /\ data = EmptyFrame
    /\ out = <<"none">>

\* app.py:16: data = load_data()
LoadData ==
    /\ loadResult = <<"not_called">>
    /\ loadResult' = load_data(fileStatus, raw)
    /\ data' = IF loadResult'[1] = "returned" THEN loadResult'[2] ELSE data
    /\ UNCHANGED <<fileStatus, raw, out>>
    /\ UNCHANGED credVars

\* backend.py:23-55 applied to the table read from a present file.
CleanTable ==
    /\ fileStatus = "present"
    /\ out = <<"none">>
    /\ out' = <<"clean", CleanData(raw)>>
    /\ UNCHANGED <<fileStatus, raw, loadResult, data>>
    /\ UNCHANGED credVars

NextLoad == LoadData \/ CleanTable

SpecLoad == InitLoad /\ [][NextLoad]_vars

\* C4: load never ends by raising to its caller, and with the source file
\* missing it returns the empty dataset and reports that the data is unavailable.
C4_LoadNeverRaises ==
    loadResult # <<"not_called">> =>
        /\ loadResult[1] = "returned"
        /\ fileStatus = "missing" =>
              (loadResult[2] = EmptyFrame /\ loadResult[3] # "")

\* C5: in the cleaned table every value of a column other than the region,
\* district and year columns is a non-negative integer.
\* A source value that is missing or not numeric becomes 0.
C5_CountsNonNegative ==
    out[1] = "clean" =>
        /\ \A i \in 1..Len(out[2].rows) :
              \A c \in out[2].columns \ KeyColumns : out[2].rows[i][c] \in Nat
        /\ \A cell \in RawCells : cell[1] \in {"text", "nan"} => CoerceCell(cell) = 0

\* ------------------------------------------------------------------------
\* backend.py: filter_state_district and calculate_safety_ratio
\* ------------------------------------------------------------------------

\* Rows of a table in the specifications of the filter and of the safety ratio.
MaxRows == 2

\* An int argument.
Int_(n) == <<"int", n>>

\* backend.py:99-100: the YEAR filter, applied when year is not None.
ByYear(cols, rows, year) ==
    IF year # PyNone /\ "YEAR" \in cols
        THEN LET Test(r) == r["YEAR"] = year[2] IN SelectSeq(rows, Test)
        ELSE rows

\* backend.py:102-103: the STATE/UT filter, applied when state is not None.
ByState(cols, rows, state) ==
    IF state # PyNone /\ "STATE/UT" \in cols
        THEN LET Test(r) == r["STATE/UT"] = state[2] IN SelectSeq(rows, Test)
        ELSE rows

\* backend.py:105-106: the DISTRICT filter, applied when district is truthy.
ByDistrict(cols, rows, district) ==
    IF Truthy(district) /\ "DISTRICT" \in cols
        THEN LET Test(r) == r["DISTRICT"] = district[2] IN SelectSeq(rows, Test)
        ELSE rows

\* A variant of the filter that skips the YEAR predicate.
filter_without_year(df, state, district, year) ==
    IF IsEmpty(df)
        THEN EmptyFrame
        ELSE Frame(df.columns,
                   ByDistrict(df.columns, ByState(df.columns, df.rows, state), district))

\* backend.py:92-108: filter_state_district(data, state, district=None, year=None)
filter_state_district(df, state, district, year) ==
    IF IsEmpty(df)
        THEN EmptyFrame
        ELSE Frame(df.columns,
                   ByDistrict(df.columns,
                              ByState(df.columns, ByYear(df.columns, df.rows, year), state),
                              district))

RECURSIVE SumColumn(_, _)
\* Series.sum() of column c over rows.
SumColumn(rows, c) ==
    IF rows = <<>> THEN 0 ELSE rows[1][c] + SumColumn(Tail(rows), c)

\* A Python float that is the exact quotient num / den (den # 0).
Float(num, den) == <<"float", num, den>>

\* A variant of the ratio that returns the region's share itself.
safety_ratio_share(df, selected_state) ==
    IF IsEmpty(df) \/ "TOTAL IPC CRIMES" \notin df.columns
        THEN Float(0, 1)
        ELSE LET InState(r) == selected_state # PyNone /\ r["STATE/UT"] = selected_state[2]
                 total_state_crimes == SumColumn(SelectSeq(df.rows, InState), "TOTAL IPC CRIMES")
                 total_crimes == SumColumn(df.rows, "TOTAL IPC CRIMES")
             IN  IF total_crimes = 0
                     THEN Float(100, 1)
                     ELSE Float(100 * total_state_crimes, total_crimes)

\* backend.py:110-121: calculate_safety_ratio(data, selected_state)
calculate_safety_ratio(df, selected_state) ==
    IF IsEmpty(df) \/ "TOTAL IPC CRIMES" \notin df.columns
        THEN Float(0, 1)
        ELSE LET InState(r) == selected_state # PyNone /\ r["STATE/UT"] = selected_state[2]
                 total_state_crimes == SumColumn(SelectSeq(df.rows, InState), "TOTAL IPC CRIMES")
                 total_crimes == SumColumn(df.rows, "TOTAL IPC CRIMES")
             IN  IF total_crimes = 0
                     THEN Float(100, 1)
                     ELSE Float(100 * (total_crimes - total_state_crimes), total_crimes)

FilterColumns == {"STATE/UT", "DISTRICT", "YEAR"}

RawFilterRows ==
    {[c \in FilterColumns |->
        IF c = "STATE/UT" THEN st ELSE IF c = "DISTRICT" THEN d ELSE y] :
        st \in {Str("GOA"), Str("delhi")},
        d \in {Str("D1"), Str("D2"), Str("  ")},
        y \in {2012, 2013}}

RawFilterTables == {Frame(FilterColumns, rows) : rows \in SeqsUpTo(RawFilterRows, MaxRows)}

StateInputs == {PyNone, Str("GOA"), Str("DELHI")}

DistrictInputs == {PyNone, Str(""), Str("D1"), Str("D2")}

YearInputs == {PyNone, Int_(2012), Int_(2013)}

InitIdle ==
    /\ creds = USER_CREDENTIALS
    /\ pc = [s \in Sessions |-> "idle"]
    /\ args = [s \in Sessions |-> NoArgs]
    /\ ret = [s \in Sessions |-> <<"none">>]
    /\ okLog = {}
    /\ session_state = [s \in Sessions |-> NewSession]
    /\ fileStatus = "present"
    /\ loadResult = <<"not_called">>
    /\ out = <<"none">>

InitFilter ==
    /\ InitIdle
    /\ raw \in RawFilterTables
    /\ data = CleanData(raw)

\* app.py:204: filter_state_district(data, state, district, year)
FilterStateDistrict ==
    /\ \E state \in StateInputs, district \in DistrictInputs, year \in YearInputs :
          out' = <<"filter", state, district, year,
                   filter_state_district(data, state, district, year)>>
    /\ UNCHANGED <<fileStatus, raw, loadResult, data>>
    /\ UNCHANGED credVars

NextFilter == FilterStateDistrict

SpecFilter == InitFilter /\ [][NextFilter]_vars

\* The rows of frame df that satisfy Match, in their order, for the three
\* filter arguments; Provided says when an argument counts as given.
Expected(df, state, district, year, districtGiven) ==
    LET Match(r) ==
            /\ (state # PyNone => r["STATE/UT"] = state[2])
            /\ (districtGiven => r["DISTRICT"] = district[2])
            /\ (year # PyNone => r["YEAR"] = year[2])
    IN  SelectSeq(df.rows, Match)

\* The three predicates applied in each of the six orders give the same rows.
OrderIndependent(df, state, district, year) ==
    LET c == df.columns
        ysd == ByDistrict(c, ByState(c, ByYear(c, df.rows, year), state), district)
        yds == ByState(c, ByDistrict(c, ByYear(c, df.rows, year), district), state)
        syd == ByDistrict(c, ByYear(c, ByState(c, df.rows, state), year), district)
        sdy == ByYear(c, ByDistrict(c, ByState(c, df.rows, state), district), year)
        dsy == ByYear(c, ByState(c, ByDistrict(c, df.rows, district), state), year)
        dys == ByState(c, ByYear(c, ByDistrict(c, df.rows, district), year), state)
    IN  {yds, syd, sdy, dsy, dys} = {ysd}

\* C6 (as claimed): the result holds exactly the records, in their order,
\* whose region equals the given region and whose district equals the given
\* district whenever a district is passed (anything but None) and whose year
\* equals the given year whenever one is passed; an omitted filter passes
\* every row and the order of the three predicates does not matter.
C6_FilterExactAsClaimed ==
    out[1] = "filter" =>
        /\ out[5].rows = Expected(data, out[2], out[3], out[4], out[3] # PyNone)
        /\ OrderIndependent(data, out[2], out[3], out[4])

\* C6 (amended): as above, with the district predicate applied only when the
\* district passed is a non-empty string: None and "" both count as omitted.
C6_FilterExact ==
    out[1] = "filter" =>
        /\ out[5].rows = Expected(data, out[2], out[3], out[4], out[3] \notin {PyNone, Str("")})
        /\ OrderIndependent(data, out[2], out[3], out[4])

\* C6 witness: a call with all three filters given kept some rows of the
\* dataset and dropped others.
C6_Witness ==
    /\ out[1] = "filter"
    /\ out[2] # PyNone /\ out[3] \notin {PyNone, Str("")} /\ out[4] # PyNone
    /\ Len(out[5].rows) = 1
    /\ Len(data.rows) = 2

RatioColumns == {"STATE/UT", "TOTAL IPC CRIMES"}

RawRatioRows ==
    {[c \in RatioColumns |-> IF c = "STATE/UT" THEN st ELSE t] :
        st \in {Str("GOA"), Str("DELHI")},
        t \in {Int_(n) : n \in (0 - 1)..MaxCount}}

RawRatioTables ==
    {Frame(RatioColumns, rows) : rows \in SeqsUpTo(RawRatioRows, MaxRows)}
        \cup {Frame({"STATE/UT"}, <<[c \in {"STATE/UT"} |-> Str("GOA")]>>)}

InitRatio ==
    /\ InitIdle
    /\ raw \in RawRatioTables
    /\ data = CleanData(raw)

\* app.py: calculate_safety_ratio(data, state)
CalculateSafetyRatio ==
    /\ \E state \in {Str("GOA"), Str("DELHI"), Str("KERALA")} :
          out' = <<"ratio", state, calculate_safety_ratio(data, state)>>
    /\ UNCHANGED <<fileStatus, raw, loadResult, data>>
    /\ UNCHANGED credVars

NextRatio == CalculateSafetyRatio

SpecRatio == InitRatio /\ [][NextRatio]_vars

\* The sum of the TOTAL field over the rows of df, and over those of a region.
GrandTotal(df) ==
    IF "TOTAL IPC CRIMES" \in df.columns THEN SumColumn(df.rows, "TOTAL IPC CRIMES") ELSE 0

RegionTotal(df, state) ==
    LET InState(r) == r["STATE/UT"] = state[2]
    IN  IF "TOTAL IPC CRIMES" \in df.columns
            THEN SumColumn(SelectSeq(df.rows, InState), "TOTAL IPC CRIMES")
            ELSE 0

\* 0 <= f <= 100 and f = 100 for a float f = <<"float", num, den>>.
InPercentRange(f) ==
    IF f[3] > 0 THEN 0 <= f[2] /\ f[2] <= 100 * f[3]
                ELSE 0 >= f[2] /\ f[2] >= 100 * f[3]

IsHundred(f) == f[2] = 100 * f[3]

\* C7: the safety ratio of every region lies in [0, 100]: the region's total
\* lies between 0 and the grand total whenever the grand total is not zero.
C7_RatioInRange ==
    out[1] = "ratio" =>
        /\ InPercentRange(out[3])
        /\ GrandTotal(data) # 0 =>
              (0 <= RegionTotal(data, out[2]) /\ RegionTotal(data, out[2]) <= GrandTotal(data))

\* C8 (as claimed): the safety ratio is 100 exactly when the grand total of
\* the TOTAL field over the whole dataset is zero, the empty dataset included.
C8_HundredIffZeroTotalAsClaimed ==
    (out[1] = "ratio" /\ "TOTAL IPC CRIMES" \in data.columns) =>
        (IsHundred(out[3]) <=> GrandTotal(data) = 0)

\* C8 (amended): for an empty dataset, or one without the TOTAL column, the
\* ratio is 0.0; otherwise it is 100.0 when the grand total is zero, and when
\* the grand total is not zero it is 100 exactly when the region's own total
\* is zero.
C8_HundredIffZeroTotal ==
    out[1] = "ratio" =>
        IF IsEmpty(data) \/ "TOTAL IPC CRIMES" \notin data.columns
            THEN out[3] = Float(0, 1)
        ELSE IF GrandTotal(data) = 0
            THEN out[3] = Float(100, 1)
        ELSE (IsHundred(out[3]) <=> RegionTotal(data, out[2]) = 0)

\* C8 witness: the ratio of a dataset that has rows and a zero grand total was
\* computed and is 100.0.
C8_Witness ==
    /\ out[1] = "ratio"
    /\ Len(data.rows) = 2
    /\ RegionTotal(data, out[2]) = 0
    /\ GrandTotal(data) = 0
    /\ out[3] = Float(100, 1)

\* ------------------------------------------------------------------------
\* backend.py: get_top_crime_composition
\* ------------------------------------------------------------------------

\* Rows of a table in the composition's specification.
MaxCompRows == 1

\* Largest top_n passed in the model (app.py:355 passes the default).
MaxTopN == 2

\* backend.py:128-133
potential_crime_cols ==
    <<"MURDER", "RAPE", "KIDNAPPING & ABDUCTION",
      "THEFT", "BURGLARY", "DOWRY DEATHS",
      "ASSAULT ON WOMEN WITH INTENT TO OUTRAGE HER MODESTY",
      "CRUELTY BY HUSBAND OR HIS RELATIVES", "ARSON">>

\* A Series is a sequence of <<label, value>> entries.
RECURSIVE SeriesSum(_)
SeriesSum(series) ==
    IF series = <<>> THEN 0 ELSE series[1][2] + SeriesSum(Tail(series))

\* Series.head(n) and Series.iloc[n:] for n >= 0.
SeriesHead(series, n) == SubSeq(series, 1, IF n < Len(series) THEN n ELSE Len(series))

SeriesFrom(series, n) == SubSeq(series, n + 1, Len(series))

\* backend.py:135, 140, 145: the sums of the known crime columns present in
\* df over the rows of the state, in the order of potential_crime_cols.
CrimeSums(df, state) ==
    LET Present(col) == col \in df.columns
        crime_cols == SelectSeq(potential_crime_cols, Present)
        InState(r) == state # PyNone /\ r["STATE/UT"] = state[2]
        state_data == SelectSeq(df.rows, InState)
    IN  [i \in 1..Len(crime_cols) |-> <<crime_cols[i], SumColumn(state_data, crime_cols[i])>>]

\* backend.py:146: crime_sums[crime_sums > 0]
PositiveEntries(series) ==
    LET Pos(e) == e[2] > 0 IN SelectSeq(series, Pos)

\* backend.py:146: Series.sort_values(ascending=False) with the default
\* kind='quicksort', which is not a stable sort: every arrangement of the
\* entries in non-increasing order of value is a possible result.
SortValuesDescending(series) ==
    LET n == Len(series)
        Perms == {p \in [1..n -> 1..n] : \A i, j \in 1..n : i # j => p[i] # p[j]}
    IN  {[i \in 1..n |-> series[p[i]]] : p \in
            {q \in Perms : \A i \in 1..(n - 1) : series[q[i]][2] >= series[q[i + 1]][2]}}

\* A variant of lines 151-156 whose remainder skips one entry.
compose_skipping_one(sorted, top_n) ==
    LET top_crimes == SeriesHead(sorted, top_n)
        other_sum == SeriesSum(SeriesFrom(sorted, top_n + 1))
    IN  IF other_sum > 0
            THEN Append(top_crimes, <<"OTHER IPC CRIMES", other_sum>>)
            ELSE top_crimes

\* backend.py:151-158: the top entries and the OTHER bucket.
compose(sorted, top_n) ==
    LET top_crimes == SeriesHead(sorted, top_n)
        other_sum == SeriesSum(SeriesFrom(sorted, top_n))
    IN  IF other_sum > 0
            THEN Append(top_crimes, <<"OTHER IPC CRIMES", other_sum>>)
            ELSE top_crimes

NoMajorCrimes == <<<<"NO MAJOR CRIMES REPORTED", 1>>>>

\* backend.py:123-158: get_top_crime_composition(data, state, top_n): the set
\* of Series the call can return.
get_top_crime_composition(df, state, top_n) ==
    LET Present(col) == col \in df.columns
        crime_cols == SelectSeq(potential_crime_cols, Present)
        InState(r) == state # PyNone /\ r["STATE/UT"] = state[2]
        state_data == SelectSeq(df.rows, InState)
        positive == PositiveEntries(CrimeSums(df, state))
    IN  IF crime_cols = <<>> THEN {<<>>}
        ELSE IF state_data = <<>> THEN {<<>>}
        ELSE IF positive = <<>> THEN {NoMajorCrimes}
        ELSE {compose(sorted, top_n) : sorted \in SortValuesDescending(positive)}

CompColumns == {"STATE/UT", "MURDER", "THEFT", "ARSON"}

RawCompRows ==
    {[c \in CompColumns |->
        IF c = "STATE/UT" THEN Str("GOA")
        ELSE IF c = "MURDER" THEN Int_(m) ELSE IF c = "THEFT" THEN Int_(t) ELSE Int_(a)] :
        m \in (0 - 1)..MaxCount, t \in 0..MaxCount, a \in 0..MaxCount}

RawCompTables ==
    {Frame(CompColumns, rows) : rows \in SeqsUpTo(RawCompRows, MaxCompRows)}
        \cup {Frame({"STATE/UT"}, <<[c \in {"STATE/UT"} |-> Str("GOA")]>>)}

InitComp ==
    /\ InitIdle
    /\ raw \in RawCompTables
    /\ data = CleanData(raw)

\* app.py:355: get_top_crime_composition(data, state)
GetTopCrimeComposition ==
    /\ \E state \in {Str("GOA"), Str("DELHI")}, top_n \in 0..MaxTopN :
          \E result \in get_top_crime_composition(data, state, top_n) :
              out' = <<"composition", state, top_n, result>>
    /\ UNCHANGED <<fileStatus, raw, loadResult, data>>
    /\ UNCHANGED credVars

NextComp == GetTopCrimeComposition

SpecComp == InitComp /\ [][NextComp]_vars

\* The entries of a composition other than the OTHER bucket.
TopEntries(result) ==
    LET NotOther(e) == e[1] # "OTHER IPC CRIMES" IN SelectSeq(result, NotOther)

OtherEntries(result) ==
    LET IsOther(e) == e[1] = "OTHER IPC CRIMES" IN SelectSeq(result, IsOther)

\* The entries of series with a positive value in descending order of value,
\* entries of equal value in the order they have in series (a stable sort).
StableDescending(series) ==
    LET pos == PositiveEntries(series)
        n == Len(pos)
        Perms == {p \in [1..n -> 1..n] : \A i, j \in 1..n : i # j => p[i] # p[j]}
        p == CHOOSE q \in Perms :
                \A i \in 1..(n - 1) :
                    \/ pos[q[i]][2] > pos[q[i + 1]][2]
                    \/ (pos[q[i]][2] = pos[q[i + 1]][2] /\ q[i] < q[i + 1])
    IN  [i \in 1..n |-> pos[p[i]]]

\* No crime count of df is negative.
NonNegativeCounts(df) ==
    \A i \in 1..Len(df.rows) : \A c \in df.columns \ KeyColumns : df.rows[i][c] >= 0

\* C9: on a dataset without negative counts, the entries other than the
\* OTHER bucket are the top_n categories of largest positive sum in descending
\* order of sum, categories of equal sum in their declaration order; a
\* category whose sum is zero never appears.
C9_TopEntriesStableDescending ==
    (out[1] = "composition" /\ out[4] # NoMajorCrimes /\ NonNegativeCounts(data)) =>
        /\ TopEntries(out[4]) = SeriesHead(StableDescending(CrimeSums(data, out[2])), out[3])
        /\ \A i \in 1..Len(out[4]) : out[4][i][2] # 0

\* C10 (as claimed): on a dataset without negative counts, when more than
\* top_n categories have a positive sum a single OTHER entry follows the top_n entries and its count is the sum over
\* all known categories minus the sum of the top entries; otherwise there is no
\* OTHER entry; the result has at most top_n + 1 entries and its counts add up
\* to the region's total over the known categories.
C10_OtherBucketAsClaimed ==
    (out[1] = "composition" /\ NonNegativeCounts(data)) =>
        LET result == out[4]
            sums == CrimeSums(data, out[2])
            top == TopEntries(result)
        IN  /\ Len(PositiveEntries(sums)) > out[3] =>
                  /\ Len(result) = out[3] + 1
                  /\ result[Len(result)] =
                        <<"OTHER IPC CRIMES", SeriesSum(sums) - SeriesSum(top)>>
            /\ Len(PositiveEntries(sums)) <= out[3] => OtherEntries(result) = <<>>
            /\ Len(OtherEntries(result)) <= 1
            /\ Len(result) <= out[3] + 1
            /\ SeriesSum(result) = SeriesSum(sums)

\* C10 (amended): as claimed, with the region's total taken over the
\* categories of positive sum only (a category of negative sum is left out of
\* the result altogether), and with the sentinel result, whose single count
\* is 1, excepted from the adding-up.
C10_OtherBucket ==
    out[1] = "composition" =>
        LET result == out[4]
            positive == PositiveEntries(CrimeSums(data, out[2]))
            top == TopEntries(result)
        IN  /\ Len(positive) > out[3] =>
                  /\ Len(result) = out[3] + 1
                  /\ result[Len(result)] =
                        <<"OTHER IPC CRIMES", SeriesSum(positive) - SeriesSum(top)>>
            /\ Len(positive) <= out[3] => OtherEntries(result) = <<>>
            /\ Len(OtherEntries(result)) <= 1
            /\ Len(result) <= out[3] + 1
            /\ result # NoMajorCrimes => SeriesSum(result) = SeriesSum(positive)

\* C10 witness: MURDER 2, THEFT 3, ARSON 1 with top_n = 2 gave THEFT, MURDER
\* and an OTHER bucket of 1.
C10_Witness ==
    out = <<"composition", Str("GOA"), 2,
            <<<<"THEFT", 3>>, <<"MURDER", 2>>, <<"OTHER IPC CRIMES", 1>>>>>>

\* The region has no row in df; the region has rows, but none of the known
\* categories has a positive sum over them.
NoMatchingRows(df, state) ==
    \A i \in 1..Len(df.rows) : df.rows[i]["STATE/UT"] # state[2]

NoPositiveSum(df, state) ==
    ~NoMatchingRows(df, state) /\ PositiveEntries(CrimeSums(df, state)) = <<>>

\* df has a column of at least one known category.
HasCrimeColumns(df) ==
    \E i \in 1..Len(potential_crime_cols) : potential_crime_cols[i] \in df.columns

\* C11: on a dataset that has known category columns, the composition of a
\* region is the single-entry "no major crimes" sentinel, and never an empty
\* result, both when the region has no matching rows in the dataset and when
\* it has rows but no known category has a positive sum.
C11_SentinelNeverEmpty ==
    (out[1] = "composition" /\ HasCrimeColumns(data)
        /\ (NoMatchingRows(data, out[2]) \/ NoPositiveSum(data, out[2]))) =>
        /\ out[4] = NoMajorCrimes
        /\ out[4] # <<>>

\* ------------------------------------------------------------------------
\* app.py: the Predict page
\* ------------------------------------------------------------------------

\* Rows of a table in the prediction's specification.
MaxPredRows == 3

RECURSIVE SumSeq(_)
\* The sum of a sequence of integers.
SumSeq(seq) == IF seq = <<>> THEN 0 ELSE seq[1] + SumSeq(Tail(seq))

\* The members of a finite set of integers in ascending order.
SortedAscending(S) ==
    CHOOSE seq \in [1..Cardinality(S) -> S] :
        \A i \in 1..(Cardinality(S) - 1) : seq[i] < seq[i + 1]

\* backend.py:79-84: get_states(data)
get_states(df) ==
    IF "STATE/UT" \in df.columns
        THEN {df.rows[i]["STATE/UT"] : i \in 1..Len(df.rows)}
        ELSE {}

\* app.py:442: state_data.groupby("YEAR")["TOTAL IPC CRIMES"].sum().reset_index():
\* one <<year, total>> entry per distinct year, in ascending order of year.
GroupByYearSum(rows) ==
    LET years == SortedAscending({rows[i]["YEAR"] : i \in 1..Len(rows)})
    IN  [k \in 1..Len(years) |->
            LET InYear(r) == r["YEAR"] = years[k]
            IN  <<years[k], SumColumn(SelectSeq(rows, InYear), "TOTAL IPC CRIMES")>>]

\* A variant of the test of line 444 that asks for three years.
insufficient_history_three(yearly_data) == Len(yearly_data) < 3

\* app.py:444: len(yearly_data) < 2
insufficient_history(yearly_data) == Len(yearly_data) < 2

\* app.py:450-455: LinearRegression().fit(X, y) followed by predict at year x:
\* the value a*x + b of the least-squares line through the points of
\* yearly_data, as the exact quotient <<num, den>> with den > 0.  Years are
\* taken relative to the first one, which leaves the line unchanged.
fit_predict(yearly_data, x) ==
    LET n == Len(yearly_data)
        x0 == yearly_data[1][1]
        u == [i \in 1..n |-> yearly_data[i][1] - x0]
        y == [i \in 1..n |-> yearly_data[i][2]]
        Su == SumSeq(u)
        Sy == SumSeq(y)
        Suu == SumSeq([i \in 1..n |-> u[i] * u[i]])
        Suy == SumSeq([i \in 1..n |-> u[i] * y[i]])
        D == n * Suu - Su * Su
        N == n * Suy - Su * Sy
    IN  <<N * (n * (x - x0) - Su) + Sy * D, n * D>>

\* app.py:459: ndarray.astype(int) on a float num / den (den > 0): truncation
\* toward zero.
astype_int(q) ==
    IF q[1] >= 0 THEN q[1] \div q[2] ELSE 0 - ((0 - q[1]) \div q[2])

\* app.py:453-454: np.arange(last_year + 1, last_year + 6)
future_years(last_year) == [i \in 1..5 |-> last_year + i]

\* app.py:440-480: what the Predict page does for selected_state: the info
\* line when nothing is selected, the error line of line 445, or the table of
\* <<year, predicted crimes>> of lines 457-460.
predict_page(df, selected_state) ==
    IF ~Truthy(selected_state) THEN <<"info", "Please select a state">>
    ELSE IF {"STATE/UT", "YEAR", "TOTAL IPC CRIMES"} \ df.columns # {}
        THEN <<"raised", "KeyError">>
    ELSE
        LET InState(r) == r["STATE/UT"] = selected_state[2]
            state_data == SelectSeq(df.rows, InState)
            yearly_data == GroupByYearSum(state_data)
        IN  IF insufficient_history(yearly_data)
                THEN <<"error", "Insufficient historical data">>
                ELSE LET last_year == yearly_data[Len(yearly_data)][1]
                         years == future_years(last_year)
                     IN  <<"predictions",
                           [i \in 1..Len(years) |->
                               <<years[i], astype_int(fit_predict(yearly_data, years[i]))>>]>>

PredColumns == {"STATE/UT", "YEAR", "TOTAL IPC CRIMES"}

\* Source rows: GOA rows of three years, and one DELHI row.
RawPredRows ==
    {[c \in PredColumns |->
        IF c = "STATE/UT" THEN Str("GOA") ELSE IF c = "YEAR" THEN y ELSE Int_(t)] :
        y \in {2012, 2013, 2015}, t \in 0..MaxCount}
    \cup {[c \in PredColumns |->
        IF c = "STATE/UT" THEN Str("DELHI") ELSE IF c = "YEAR" THEN 2012 ELSE Int_(MaxCount)]}

RawPredTables ==
    {Frame(PredColumns, rows) : rows \in SeqsUpTo(RawPredRows, MaxPredRows)}
        \cup {Frame({"STATE/UT"}, <<[c \in {"STATE/UT"} |-> Str("GOA")]>>)}

InitPredict ==
    /\ InitIdle
    /\ raw \in RawPredTables
    /\ data = CleanData(raw)

\* app.py:437-438: selected_state = st.selectbox(..., get_states(data)): one
\* of the states of the dataset, or None when it has none.  A region without
\* rows (here KERALA) is what a caller of the block can pass besides.
SelectedStates(df) ==
    {Str(st) : st \in get_states(df)}
        \cup (IF get_states(df) = {} THEN {PyNone} ELSE {})
        \cup {Str("KERALA")}

\* app.py:432-480: one run of the Predict page.
PredictFuture ==
    /\ \E selected_state \in SelectedStates(data) :
          out' = <<"predict", selected_state, predict_page(data, selected_state)>>
    /\ UNCHANGED <<fileStatus, raw, loadResult, data>>
    /\ UNCHANGED credVars

NextPredict == PredictFuture

SpecPredict == InitPredict /\ [][NextPredict]_vars

\* The number of distinct years among the rows of df that match the region.
DistinctYears(df, state) ==
    Cardinality({df.rows[i]["YEAR"] :
        i \in {j \in 1..Len(df.rows) : df.rows[j]["STATE/UT"] = state[2]}})

\* C12: on a dataset with the region, year and TOTAL columns, the prediction
\* for a region whose matching rows contain 0 or 1 distinct years ends with
\* the insufficient-history error and no predictions; for a region with 2 or
\* more distinct years it yields predictions and no error.
C12_InsufficientHistory ==
    (out[1] = "predict" /\ out[2] # PyNone /\ PredColumns \subseteq data.columns) =>
        IF DistinctYears(data, out[2]) < 2
            THEN out[3] = <<"error", "Insufficient historical data">>
            ELSE out[3][1] = "predictions" /\ Len(out[3][2]) > 0

\* C12 witness: a region whose three rows are all of one year was refused.
C12_Witness ==
    /\ out[1] = "predict"
    /\ Len(data.rows) = 3
    /\ DistinctYears(data, out[2]) = 1
    /\ Len(SelectSeq(data.rows, LAMBDA r : r["STATE/UT"] = out[2][2])) = 3
    /\ out[3][1] = "error"

\* C13: on a dataset without negative counts every predicted count is an
\* integer greater than or equal to zero: where the fitted line gives a
\* negative value for a future year the predicted count of that year is 0.
C13_PredictionsNonNegative ==
    (out[1] = "predict" /\ out[3][1] = "predictions" /\ NonNegativeCounts(data)) =>
        \A i \in 1..Len(out[3][2]) : out[3][2][i][2] \in Nat

\* ------------------------------------------------------------------------
\* app.py: session state, the login page, navigation and logout
\* ------------------------------------------------------------------------

\* <<username, password>> a login submit passes; st.text_input yields a str,
\* the empty str for an empty field.
LoginInputs ==
    {<<Str("judge"), Str("hackathon2024")>>, <<Str("judge"), Str("")>>,
     <<Str("amy"), Str("pw1")>>, <<Str(""), Str("")>>}

\* <<username, password, confirm password>> a register submit passes.
RegisterSubmitInputs ==
    {<<Str("amy"), Str("pw1"), Str("pw1")>>, <<Str("amy"), Str("pw1"), Str("")>>,
     <<Str("judge"), Str("pw1"), Str("pw1")>>, <<Str(""), Str(""), Str("")>>}

\* The pages the Home page's buttons lead to (app.py:123-134).
HomeTargets == {"CrimeSearch", "SafetyRatio", "Compare", "Trends", "Predict"}

\* app.py:28-29: go_to(page) on a session's state.
go_to(ss, page) == [ss EXCEPT !.page = page]

\* A variant of logout that leaves the username in place.
logout_keeping_username(ss) == [ss EXCEPT !.logged_in = FALSE, !.page = "Home"]

\* app.py:31-35: logout() on a session's state.
logout(ss) == [ss EXCEPT !.logged_in = FALSE, !.page = "Home", !.username = PyNone]

\* app.py:56-67: the login form is submitted (the form is drawn only while
\* the session is not logged in, line 94).  A successful authenticate_user sets
\* logged_in and username; a failed one shows one of the two error lines,
\* chosen by is_username_registered.
LoginSubmit(s) ==
    /\ pc[s] = "idle"
    /\ ~session_state[s].logged_in
    /\ \E a \in LoginInputs :
          IF authenticate_user(creds, a[1], a[2])
              THEN /\ session_state' = [session_state EXCEPT
                                           ![s].logged_in = TRUE, ![s].username = a[1]]
                   /\ ret' = [ret EXCEPT ![s] = <<"authenticate", a[1], a[2], TRUE>>]
              ELSE /\ UNCHANGED session_state
                   /\ ret' = [ret EXCEPT ![s] =
                                <<"authenticate", a[1], a[2], FALSE,
                                  IF is_username_registered(creds, a[1])
                                      THEN "Incorrect password"
                                      ELSE "This username is not registered">>]
    /\ UNCHANGED <<creds, pc, args, okLog>>
    /\ UNCHANGED dataVars

\* app.py:79-87: the register form is submitted (drawn only while the session
\* is not logged in).  Differing passwords end the submit with an error;
\* otherwise the thread enters register_user(reg_username, reg_password).
RegisterSubmit(s) ==
    /\ pc[s] = "idle"
    /\ ~session_state[s].logged_in
    /\ \E a \in RegisterSubmitInputs :
          IF a[2] # a[3]
              THEN /\ ret' = [ret EXCEPT ![s] =
                                <<"register_submit", FALSE, "Passwords do not match">>]
                   /\ UNCHANGED <<pc, args>>
              ELSE /\ args' = [args EXCEPT ![s] = <<a[1], a[2]>>]
                   /\ pc' = [pc EXCEPT ![s] = "reg_validate"]
                   /\ ret' = [ret EXCEPT ![s] = <<"none">>]
    /\ UNCHANGED <<creds, okLog, session_state>>
    /\ UNCHANGED dataVars

\* app.py:123-134, 144, 253, 301, 405, 434: a navigation button of the page
\* shown is clicked (the pages are drawn only while the session is logged in).
GoTo(s) ==
    /\ pc[s] = "idle"
    /\ session_state[s].logged_in
    /\ \E page \in (IF session_state[s].page = "Home" THEN HomeTargets ELSE {"Home"}) :
          session_state' = [session_state EXCEPT ![s] = go_to(session_state[s], page)]
    /\ UNCHANGED <<creds, pc, args, ret, okLog>>
    /\ UNCHANGED dataVars

\* app.py:106: the Logout button is clicked (drawn only while logged in).
Logout(s) ==
    /\ pc[s] = "idle"
    /\ session_state[s].logged_in
    /\ session_state' = [session_state EXCEPT ![s] = logout(session_state[s])]
    /\ UNCHANGED <<creds, pc, args, ret, okLog>>
    /\ UNCHANGED dataVars

NextUI ==
    \E s \in Sessions :
        \/ LoginSubmit(s)
        \/ RegisterSubmit(s)
        \/ RegisterValidate(s)
        \/ RegisterCheck(s)
        \/ RegisterInsert(s)
        \/ GoTo(s)
        \/ Logout(s)

SpecUI == InitCred /\ [][NextUI]_vars

\* logged_in and username of a session agree, and a logged-in session's
\* username is a key of the store for which its last login's
\* authenticate_user returned true.
SessionConsistent(ss, r, store) ==
    /\ ss.logged_in <=> ss.username # PyNone
    /\ ss.logged_in =>
          /\ ss.username \in DOMAIN store
          /\ r[1] = "authenticate" /\ r[2] = ss.username /\ r[4] = TRUE

\* C15: before and after every step of a session (login submit, register
\* submit and the steps of its register call, navigation, logout) logged_in
\* is true exactly when username is not None, and then the username is a key
\* of the store for which authenticate_user returned true at the login that
\* set it; a failed login and every step of a register submit leave the
\* session's logged_in, username and page as they were; and a step that ends
\* logged_in leaves logged_in false, username None and page Home.
C15_SessionState ==
    [][\A s \in Sessions :
          /\ SessionConsistent(session_state[s], ret[s], creds)
          /\ SessionConsistent(session_state'[s], ret'[s], creds')
          /\ (ret'[s] # ret[s] /\ ret'[s][1] = "authenticate" /\ ~ret'[s][4]) =>
                session_state'[s] = session_state[s]
          /\ (pc[s] # "idle" \/ pc'[s] # "idle"
                \/ (ret'[s] # ret[s] /\ ret'[s][1] \in {"register", "register_submit"})) =>
                session_state'[s] = session_state[s]
          /\ (session_state[s].logged_in /\ ~session_state'[s].logged_in) =>
                session_state'[s] = NewSession]_vars

\* C15 witness: a session that registered a new username logged in with it
\* and navigated to the Predict page, while the other session is logged out
\* again after a login.
C15_Witness ==
    /\ session_state[1] = [logged_in |-> TRUE, username |-> Str("amy"), page |-> "Predict"]
    /\ <<1, Str("amy"), Str("pw1")>> \in okLog
    /\ session_state[2] = NewSession
    /\ ret[2] = <<"authenticate", Str("judge"), Str("hackathon2024"), TRUE>>

====
